---- MODULE Spec2Model ----
(***************************************************************************)
(* A model of kostats_scraper.py: the KOStatsScraper process (construct,   *)
(* login, one process_sport per sport page, save of the download history)  *)
(* run repeatedly against a file system that outlives each process.        *)
(***************************************************************************)
EXTENDS Integers, Sequences, FiniteSets, TLC

(* --------------------------- bounds ----------------------------------- *)
\* how many of the SPORT_PAGES keys the model iterates over
NumSports == 2
\* file names 1..MaxNames stand for "A.TXT", "B.TXT", ...
MaxNames == 2
\* remote directories a link may point into: two links with different
\* directories and the same name have the same os.path.basename
MaxDirs == 2
\* most links the sport pages list between them at one time
MaxLinks == 2
\* how many times the script is started
MaxRuns == 2

(* --------------------------- configuration ---------------------------- *)
SPORT_CODES == <<"CBK", "CFB", "MLB", "NBA", "NFL", "NHL">>

\* SPORT_PAGES.keys(), in insertion order
SPORT_PAGES == SubSeq(SPORT_CODES, 1, NumSports)

Sports == {SPORT_PAGES[i] : i \in 1..Len(SPORT_PAGES)}

Names == 1..MaxNames

\* an absolute file URL: <<directory, base name>>
Urls == (1..MaxDirs) \X Names

\* os.path.basename(file_url)
basename(url) == url[2]

RECURSIVE SeqsUpTo(_, _)
SeqsUpTo(S, n) ==
  IF n = 0 THEN {<<>>}
  ELSE LET shorter == SeqsUpTo(S, n - 1)
       IN  shorter \cup {Append(s, x) : s \in {t \in shorter : Len(t) = n - 1}, x \in S}

\* the hrefs of a sport page that match \.TXT$, resolved, in document order
Pages == SeqsUpTo(Urls, MaxLinks)

(* --------------------------- the history ------------------------------ *)
\* self.download_history is whatever json.load returned: a dict, or (for a
\* history file that holds a JSON array) a list
EmptyDict == [type |-> "dict", d |-> <<>>]

NotADict == [type |-> "list", d |-> <<>>]

\* the history file on disk
AbsentFile == [kind |-> "absent", members |-> {}]

\* text that json.load rejects with JSONDecodeError
GarbageFile == [kind |-> "garbage", members |-> {}]

\* the file after open(HISTORY_FILE, 'w') and before json.dump has completed
TruncatedFile == [kind |-> "truncated", members |-> {}]

\* a file holding the JSON text "[]"
ArrayFile == [kind |-> "array", members |-> {}]

\* json.dump(self.download_history, f, indent=2): the JSON text, as the set
\* of its members <<sport, {<<name, downloaded_at, url>>}>>
Dump(h) ==
  IF h.type = "list" THEN ArrayFile
  ELSE [kind |-> "object",
        members |-> {<<c, {<<n, h.d[c][n].downloaded_at, h.d[c][n].url>> :
                             n \in DOMAIN h.d[c]}>> : c \in DOMAIN h.d}]

\* json.load of an object
Parse(members) ==
  [type |-> "dict",
   d |-> [c \in {m[1] : m \in members} |->
            LET es == (CHOOSE m \in members : m[1] = c)[2]
            IN  [n \in {e[1] : e \in es} |->
                   LET e == CHOOSE x \in es : x[1] = n
                   IN  [downloaded_at |-> e[2], url |-> e[3]]]]]

\* a load that does not read the file and always starts fresh
LoadStartsFresh(file) == EmptyDict

_load_download_history(file) ==
  CASE file.kind = "absent" -> EmptyDict
    [] file.kind \in {"garbage", "truncated"} -> EmptyDict
    [] file.kind = "array" -> NotADict
    [] OTHER -> Parse(file.members)


\* a membership test that finds the name under any sport
InHistoryAnySport(h, sport_code, file_name) ==
  /\ h.type = "dict"
  /\ \E c \in DOMAIN h.d : file_name \in DOMAIN h.d[c]

\* a membership test that looks at the sport only
InHistorySportOnly(h, sport_code, file_name) ==
  /\ h.type = "dict"
  /\ sport_code \in DOMAIN h.d

\* a membership test that never finds the name
InHistoryNever(h, sport_code, file_name) == FALSE

\* sport_code in self.download_history and
\* file_name in self.download_history[sport_code]
InHistory(h, sport_code, file_name) ==
  /\ h.type = "dict"
  /\ sport_code \in DOMAIN h.d
  /\ file_name \in DOMAIN h.d[sport_code]

\* an update that replaces the records of the sport by the new record
RecordReplacesSport(h, sport_code, file_name, file_url, at) ==
  [type |-> "dict",
   d |-> [c \in DOMAIN h.d \cup {sport_code} |->
            IF c = sport_code
            THEN [n \in {file_name} |-> [downloaded_at |-> at, url |-> file_url]]
            ELSE h.d[c]]]

\* the two assignments that update the history after a successful download
\* (h is a dict)
Record(h, sport_code, file_name, file_url, at) ==
  LET d1 == IF sport_code \in DOMAIN h.d THEN h.d
            ELSE [c \in DOMAIN h.d \cup {sport_code} |->
                    IF c = sport_code THEN <<>> ELSE h.d[c]]
      old == d1[sport_code]
      new == [n \in DOMAIN old \cup {file_name} |->
                IF n = file_name THEN [downloaded_at |-> at, url |-> file_url]
                ELSE old[n]]
  IN  [type |-> "dict", d |-> [d1 EXCEPT ![sport_code] = new]]

\* the (file_name, file_url) pairs get_file_links builds from a page
Links(page) ==
  [i \in 1..Len(page) |-> [file_name |-> basename(page[i]), file_url |-> page[i]]]

\* the <<sport, name>> pairs a history has a record for
Keys(h) ==
  IF h.type # "dict" THEN {}
  ELSE UNION {{<<c, n>> : n \in DOMAIN h.d[c]} : c \in DOMAIN h.d}

\* <<sport, name, downloaded_at, url>> of every record a history file holds
Entries(file) ==
  IF file.kind # "object" THEN {}
  ELSE UNION {{<<m[1], e[1], e[2], e[3]>> : e \in m[2]} : m \in file.members}

\* the <<sport, name>> pairs a set of such records is about
KeysOf(entries) == {<<e[1], e[2]>> : e \in entries}

(* --------------------------- state ------------------------------------ *)
VARIABLES
  pc,                \* where the process is; "none" before the first start
  runs,              \* how many times the script has been started
  histFile,          \* disk: HISTORY_FILE
  files,             \* disk: <<sport, name>> -> the file written there
  dirs,              \* disk: the directories that exist
  download_history,  \* self.download_history
  logged_in,         \* self.session carries the login
  sportIdx,          \* position of run's loop in SPORT_PAGES.keys()
  file_links,        \* process_sport: file_links
  linkIdx,           \* process_sport: position of the loop in file_links
  downloaded_count,  \* process_sport: downloaded_count
  total_downloaded,  \* run: total_downloaded
  reqs,              \* log: download requests this process issued, in order
  seen,              \* log: what each listing request of this process returned
  slept,             \* log: time.sleep calls since the last download request
  raisedAt,          \* log: the call whose exception ended the process
  atLoad,            \* log: history file and history at the end of __init__
  atSport,           \* log: the history when process_sport was entered
  prev,              \* log: how the previous process ended
  persisted          \* log: every record a completed json.dump has written

disk == <<histFile, files, dirs>>
memory == <<download_history, logged_in, sportIdx, file_links, linkIdx, downloaded_count,
            total_downloaded>>
logs == <<reqs, seen, slept, raisedAt, atLoad, atSport, prev, persisted>>
vars == <<pc, runs, disk, memory, logs>>

\* the clock datetime.now() reads, in ticks of one start of the script
now == runs

Running == {"login", "sport", "loop", "get", "write", "sleep", "save", "dump"}
Stopped == {"none", "completed", "auth_failed", "no_creds", "raised", "killed"}

NoListing == [status |-> "none", page |-> <<>>]
NoSeen == [c \in Sports |-> NoListing]
NoLoad == [file |-> AbsentFile, files |-> <<>>, history |-> EmptyDict]
NoPrev == [ended |-> "none", seen |-> NoSeen, failed |-> {}, unrecovered |-> {},
           allRecorded |-> FALSE]

sport_code == SPORT_PAGES[sportIdx]

\* <<sport, name>> of the requests of this process with the given status
ReqKeys(status) ==
  {<<reqs[i].sport, reqs[i].name>> : i \in {j \in 1..Len(reqs) : reqs[j].status = status}}

\* every item the listings of this process showed is in the history
AllRecorded ==
  \A c \in Sports : \A i \in 1..Len(seen[c].page) :
     <<c, basename(seen[c].page[i])>> \in Keys(download_history)

\* what the next process remembers of this one
Summary ==
  [ended |-> pc, seen |-> seen, failed |-> ReqKeys("failed"),
   unrecovered |-> ReqKeys("failed") \ ReqKeys("ok"),
   allRecorded |-> pc = "completed" /\ AllRecorded]

\* a history file that earlier runs of the script left: the record of
\* "A.TXT" under the first sport, downloaded at time 0
OldFile ==
  [kind |-> "object", members |-> {<<SPORT_PAGES[1], {<<1, 0, <<1, 1>>>>}>>}]

\* the history files a start can find: none, one that earlier runs left, or
\* one that something else damaged or wrote
InitFiles == {AbsentFile, OldFile, GarbageFile, ArrayFile}

Init ==
  /\ pc = "none"
  /\ runs = 0
  /\ histFile \in InitFiles
  /\ files = [q \in KeysOf(Entries(histFile)) |->
               [complete |-> TRUE, url |-> <<1, q[2]>>, at |-> 0]]
  /\ dirs = IF histFile = AbsentFile THEN {} ELSE {"base"} \cup Sports
  /\ download_history = EmptyDict
  /\ logged_in = FALSE
  /\ sportIdx = 1
  /\ file_links = <<>>
  /\ linkIdx = 1
  /\ downloaded_count = 0
  /\ total_downloaded = 0
  /\ reqs = <<>>
  /\ seen = NoSeen
  /\ slept = 0
  /\ raisedAt = "none"
  /\ atLoad = NoLoad
  /\ atSport = EmptyDict
  /\ prev = NoPrev
  /\ persisted = Entries(histFile)

\* the attributes and locals of a process that has not started its work
FreshMemory(h) ==
  /\ download_history' = h
  /\ logged_in' = FALSE
  /\ sportIdx' = 1
  /\ file_links' = <<>>
  /\ linkIdx' = 1
  /\ downloaded_count' = 0
  /\ total_downloaded' = 0

FreshLogs ==
  /\ reqs' = <<>>
  /\ seen' = NoSeen
  /\ slept' = 0
  /\ raisedAt' = "none"
  /\ atSport' = EmptyDict


(* --------------------------- the process ------------------------------ *)
\* an __init__ that validates the credentials after it has made the
\* directories
ConstructNoCredentialsLate ==
  /\ pc \in Stopped
  /\ runs < MaxRuns
  /\ runs' = runs + 1
  /\ prev' = Summary
  /\ pc' = "no_creds"
  /\ dirs' = dirs \cup {"base"} \cup Sports
  /\ FreshMemory(EmptyDict)
  /\ FreshLogs
  /\ atLoad' = NoLoad
  /\ UNCHANGED <<histFile, files, persisted>>

\* the script is started without KOSTATS_USERNAME or KOSTATS_PASSWORD:
\* __init__ raises ValueError at its first statement
ConstructNoCredentials ==
  /\ pc \in Stopped
  /\ runs < MaxRuns
  /\ runs' = runs + 1
  /\ prev' = Summary
  /\ pc' = "no_creds"
  /\ FreshMemory(EmptyDict)
  /\ FreshLogs
  /\ atLoad' = NoLoad
  /\ UNCHANGED <<disk, persisted>>

\* __init__ with credentials: the base directory, the history, the sport
\* directories
Construct ==
  /\ pc \in Stopped
  /\ runs < MaxRuns
  /\ runs' = runs + 1
  /\ prev' = Summary
  /\ dirs' = dirs \cup {"base"} \cup Sports
  /\ FreshMemory(_load_download_history(histFile))
  /\ FreshLogs
  /\ atLoad' = [file |-> histFile, files |-> files,
                history |-> _load_download_history(histFile)]
  /\ pc' = "login"
  /\ UNCHANGED <<histFile, files, persisted>>

\* run: login() returned True
LoginOk ==
  /\ pc = "login"
  /\ logged_in' = TRUE
  /\ pc' = "sport"
  /\ UNCHANGED <<runs, disk, download_history, sportIdx, file_links, linkIdx,
                 downloaded_count, total_downloaded, logs>>

\* a run that goes on to the sports although login() returned False
LoginFailsGoesOn ==
  /\ pc = "login"
  /\ pc' = "sport"
  /\ UNCHANGED <<runs, disk, memory, logs>>

\* run: login() returned False (no login form, or no success marker in the
\* response); run logs and returns
LoginFails ==
  /\ pc = "login"
  /\ pc' = "auth_failed"
  /\ UNCHANGED <<runs, disk, memory, logs>>

\* an exception no frame catches ends the process; nothing of its memory
\* survives, and the logs of the model keep only where it was raised
Raise(where) ==
  /\ pc' = "raised"
  /\ raisedAt' = where
  /\ FreshMemory(EmptyDict)
  /\ reqs' = <<>>
  /\ seen' = NoSeen
  /\ slept' = 0
  /\ atSport' = EmptyDict
  /\ UNCHANGED <<runs, atLoad, prev, persisted>>

\* login: session.get or session.post raises (requests.ConnectionError)
LoginRaises ==
  /\ pc = "login"
  /\ Raise("login")
  /\ UNCHANGED disk

\* links the listings of this process have shown so far
RECURSIVE LinksSeen(_)
LinksSeen(n) ==
  IF n = 0 THEN 0 ELSE Len(seen[SPORT_PAGES[n]].page) + LinksSeen(n - 1)

\* a get_file_links that parses the page whatever the status
get_file_links_any_status(code, response) ==
  IF code \notin Sports THEN <<>> ELSE Links(response.page)

\* get_file_links(sport_code), given the response to its request: [] for a
\* code that is no key of SPORT_PAGES (no request is made then) and for a
\* status other than 200
get_file_links(code, response) ==
  IF code \notin Sports THEN <<>>
  ELSE IF response.status # 200 THEN <<>>
  ELSE Links(response.page)

\* process_sport entered; get_file_links got status 200 and the page
GetFileLinks(page) ==
  /\ pc = "sport"
  /\ LinksSeen(sportIdx - 1) + Len(page) <= MaxLinks
  /\ file_links' = get_file_links(sport_code, [status |-> 200, page |-> page])
  /\ linkIdx' = 1
  /\ downloaded_count' = 0
  /\ seen' = [seen EXCEPT ![sport_code] = [status |-> "ok", page |-> page]]
  /\ atSport' = download_history
  /\ slept' = 0
  /\ pc' = "loop"
  /\ UNCHANGED <<runs, disk, download_history, logged_in, sportIdx, total_downloaded,
                 reqs, raisedAt, atLoad, prev, persisted>>

\* process_sport entered; get_file_links got another status, with whatever
\* body, and returns []
GetFileLinksFails(page) ==
  /\ pc = "sport"
  /\ file_links' = get_file_links(sport_code, [status |-> 404, page |-> page])
  /\ linkIdx' = 1
  /\ downloaded_count' = 0
  /\ seen' = [seen EXCEPT ![sport_code] = [status |-> "failed", page |-> <<>>]]
  /\ atSport' = download_history
  /\ slept' = 0
  /\ pc' = "loop"
  /\ UNCHANGED <<runs, disk, download_history, logged_in, sportIdx, total_downloaded,
                 reqs, raisedAt, atLoad, prev, persisted>>

\* get_file_links: session.get raises
GetFileLinksRaises ==
  /\ pc = "sport"
  /\ Raise("listing")
  /\ UNCHANGED disk

\* download_file: the item is in the history; return False
DownloadSkip ==
  /\ pc = "loop"
  /\ linkIdx <= Len(file_links)
  /\ InHistory(download_history, sport_code, file_links[linkIdx].file_name)
  /\ pc' = "sleep"
  /\ UNCHANGED <<runs, disk, memory, logs>>

\* download_file: the item is not in the history; session.get(file_url)
DownloadRequest ==
  /\ pc = "loop"
  /\ linkIdx <= Len(file_links)
  /\ ~InHistory(download_history, sport_code, file_links[linkIdx].file_name)
  /\ reqs' = Append(reqs, [sport |-> sport_code, idx |-> linkIdx,
                           name |-> file_links[linkIdx].file_name,
                           url |-> file_links[linkIdx].file_url,
                           status |-> "pending"])
  /\ slept' = 0
  /\ pc' = "get"
  /\ UNCHANGED <<runs, disk, memory, seen, raisedAt, atLoad, atSport, prev,
                 persisted>>

\* a process_sport that skips the sleep after a failed download
DownloadFailsNoSleep ==
  /\ pc = "get"
  /\ reqs' = [reqs EXCEPT ![Len(reqs)].status = "failed"]
  /\ linkIdx' = linkIdx + 1
  /\ pc' = "loop"
  /\ UNCHANGED <<runs, disk, download_history, logged_in, sportIdx, file_links,
                 downloaded_count, total_downloaded, seen, slept, raisedAt,
                 atLoad, atSport, prev, persisted>>

\* a download_file that records the item although the status is not 200
DownloadFailsRecorded ==
  /\ pc = "get"
  /\ download_history.type = "dict"
  /\ reqs' = [reqs EXCEPT ![Len(reqs)].status = "failed"]
  /\ download_history' = Record(download_history, sport_code,
                                file_links[linkIdx].file_name,
                                file_links[linkIdx].file_url, now)
  /\ pc' = "sleep"
  /\ UNCHANGED <<runs, disk, logged_in, sportIdx, file_links, linkIdx,
                 downloaded_count, total_downloaded, seen, slept, raisedAt,
                 atLoad, atSport, prev, persisted>>

\* download_file: the response status is not 200; return False
DownloadFails ==
  /\ pc = "get"
  /\ reqs' = [reqs EXCEPT ![Len(reqs)].status = "failed"]
  /\ pc' = "sleep"
  /\ UNCHANGED <<runs, disk, memory, seen, slept, raisedAt, atLoad, atSport,
                 prev, persisted>>

\* download_file: session.get raises (connection refused, timeout, ...)
DownloadRaises ==
  /\ pc = "get"
  /\ Raise("download")
  /\ UNCHANGED disk

\* the path os.path.join(BASE_DOWNLOAD_DIR, sport_code, file_name)
file_path == <<sport_code, file_links[linkIdx].file_name>>

\* the files after the file at path holds content
WriteTo(fs, path, content) ==
  [q \in DOMAIN fs \cup {path} |-> IF q = path THEN content ELSE fs[q]]

\* a download_file that updates the history before it writes the file
DownloadOpenRecords ==
  /\ pc = "get"
  /\ files' = WriteTo(files, file_path, [complete |-> FALSE, url |-> <<>>, at |-> 0])
  /\ download_history' =
       IF download_history.type = "dict"
       THEN Record(download_history, sport_code, file_links[linkIdx].file_name,
                   file_links[linkIdx].file_url, now)
       ELSE download_history
  /\ pc' = "write"
  /\ UNCHANGED <<runs, histFile, dirs, logged_in, sportIdx, file_links, linkIdx,
                 downloaded_count, total_downloaded, logs>>

\* download_file: status 200; open(file_path, 'wb') creates or truncates
DownloadOpen ==
  /\ pc = "get"
  /\ files' = WriteTo(files, file_path, [complete |-> FALSE, url |-> <<>>, at |-> 0])
  /\ pc' = "write"
  /\ UNCHANGED <<runs, histFile, dirs, memory, logs>>

\* a download_file that also saves the history file after each download
DownloadRecordFlushes ==
  /\ pc = "write"
  /\ download_history.type = "dict"
  /\ files' = WriteTo(files, file_path,
                      [complete |-> TRUE, url |-> file_links[linkIdx].file_url,
                       at |-> now])
  /\ download_history' = Record(download_history, sport_code,
                                file_links[linkIdx].file_name,
                                file_links[linkIdx].file_url, now)
  /\ histFile' = Dump(download_history')
  /\ downloaded_count' = downloaded_count + 1
  /\ reqs' = [reqs EXCEPT ![Len(reqs)].status = "ok"]
  /\ pc' = "sleep"
  /\ UNCHANGED <<runs, dirs, logged_in, sportIdx, file_links, linkIdx,
                 total_downloaded, seen, slept, raisedAt, atLoad, atSport, prev,
                 persisted>>

\* download_file: f.write(response.content), then the history update; on a
\* dict it returns True and process_sport counts the download
DownloadRecord ==
  /\ pc = "write"
  /\ download_history.type = "dict"
  /\ files' = WriteTo(files, file_path,
                      [complete |-> TRUE, url |-> file_links[linkIdx].file_url,
                       at |-> now])
  /\ download_history' = Record(download_history, sport_code,
                                file_links[linkIdx].file_name,
                                file_links[linkIdx].file_url, now)
  /\ downloaded_count' = downloaded_count + 1
  /\ reqs' = [reqs EXCEPT ![Len(reqs)].status = "ok"]
  /\ pc' = "sleep"
  /\ UNCHANGED <<runs, histFile, dirs, logged_in, sportIdx, file_links, linkIdx,
                 total_downloaded, seen, slept, raisedAt, atLoad, atSport, prev,
                 persisted>>

\* download_file: f.write(response.content), then the history update on a
\* list: self.download_history[sport_code] = {} raises TypeError
DownloadRecordRaises ==
  /\ pc = "write"
  /\ download_history.type = "list"
  /\ files' = WriteTo(files, file_path,
                      [complete |-> TRUE, url |-> file_links[linkIdx].file_url,
                       at |-> now])
  /\ Raise("record")
  /\ UNCHANGED <<histFile, dirs>>

\* process_sport: time.sleep(1), next item
Sleep ==
  /\ pc = "sleep"
  /\ slept' = 1
  /\ linkIdx' = linkIdx + 1
  /\ pc' = "loop"
  /\ UNCHANGED <<runs, disk, download_history, logged_in, sportIdx, file_links,
                 downloaded_count, total_downloaded, reqs, seen, raisedAt, atLoad,
                 atSport, prev, persisted>>

\* a run that keeps the count of the last sport instead of the sum
ProcessSportReturnsLast ==
  /\ pc = "loop"
  /\ linkIdx > Len(file_links)
  /\ total_downloaded' = downloaded_count
  /\ IF sportIdx < Len(SPORT_PAGES)
     THEN sportIdx' = sportIdx + 1 /\ pc' = "sport"
     ELSE sportIdx' = sportIdx /\ pc' = "save"
  /\ UNCHANGED <<runs, disk, download_history, logged_in, file_links, linkIdx,
                 downloaded_count, logs>>

\* process_sport returns downloaded_count; run adds it and goes on to the
\* next sport, or to _save_download_history after the last
ProcessSportReturns ==
  /\ pc = "loop"
  /\ linkIdx > Len(file_links)
  /\ total_downloaded' = total_downloaded + downloaded_count
  /\ IF sportIdx < Len(SPORT_PAGES)
     THEN sportIdx' = sportIdx + 1 /\ pc' = "sport"
     ELSE sportIdx' = sportIdx /\ pc' = "save"
  /\ UNCHANGED <<runs, disk, download_history, logged_in, file_links, linkIdx,
                 downloaded_count, logs>>

\* _save_download_history: open(HISTORY_FILE, 'w') truncates the file
SaveOpen ==
  /\ pc = "save"
  /\ histFile' = TruncatedFile
  /\ pc' = "dump"
  /\ UNCHANGED <<runs, files, dirs, memory, logs>>

\* _save_download_history: json.dump and close; run logs the total and returns
SaveDump ==
  /\ pc = "dump"
  /\ histFile' = Dump(download_history)
  /\ persisted' = persisted \cup Entries(Dump(download_history))
  /\ pc' = "completed"
  /\ UNCHANGED <<runs, files, dirs, memory, reqs, seen, slept, raisedAt,
                 atLoad, atSport, prev>>

\* the process is killed (signal, power loss) wherever it is
Kill ==
  /\ pc \in Running
  /\ pc' = "killed"
  /\ FreshMemory(EmptyDict)
  /\ FreshLogs
  /\ UNCHANGED <<runs, disk, atLoad, prev, persisted>>

Next ==
  \/ ConstructNoCredentials
  \/ Construct
  \/ LoginOk
  \/ LoginFails
  \/ LoginRaises
  \/ \E page \in Pages : GetFileLinks(page)
  \/ \E page \in Pages : GetFileLinksFails(page)
  \/ GetFileLinksRaises
  \/ DownloadSkip
  \/ DownloadRequest
  \/ DownloadFails
  \/ DownloadRaises
  \/ DownloadOpen
  \/ DownloadRecord
  \/ DownloadRecordRaises
  \/ Sleep
  \/ ProcessSportReturns
  \/ SaveOpen
  \/ SaveDump
  \/ Kill

Spec == Init /\ [][Next]_vars

TypeOK ==
  /\ pc \in Running \cup Stopped
  /\ runs \in 0..MaxRuns
  /\ download_history.type \in {"dict", "list"}
  /\ histFile.kind \in {"absent", "garbage", "truncated", "array", "object"}
  /\ logged_in \in BOOLEAN
  /\ linkIdx \in 1..(Len(file_links) + 1)
  /\ sportIdx \in 1..Len(SPORT_PAGES)


(* --------------------------- properties ------------------------------- *)
\* the members of S up to n, in increasing order
RECURSIVE Sel(_, _)
Sel(n, S) ==
  IF n = 0 THEN <<>>
  ELSE IF n \in S THEN Append(Sel(n - 1, S), n) ELSE Sel(n - 1, S)

\* the requests of this process for the sport being processed
Mine == LET OfSport(r) == r.sport = sport_code IN SelectSeq(reqs, OfSport)

\* the positions in file_links a download request was issued for, in order
Requested == [i \in 1..Len(Mine) |-> Mine[i].idx]

RequestedSet == {Mine[i].idx : i \in 1..Len(Mine)}

\* the positions in file_links whose download succeeded
Succeeded == {Mine[i].idx : i \in {j \in 1..Len(Mine) : Mine[j].status = "ok"}}

\* the sport being processed had no record of the name at position i when
\* process_sport was entered
NewAtStart(i) == <<sport_code, file_links[i].file_name>> \notin Keys(atSport)

\* an earlier position with the same name was downloaded successfully
DoneEarlier(i) ==
  \E j \in Succeeded : j < i /\ file_links[j].file_name = file_links[i].file_name

AtEndOfSport == pc = "loop" /\ linkIdx > Len(file_links)

\* C1 as stated: when process_sport has gone through its listing B, the
\* requests it issued are exactly the items of B whose name was not in the
\* history A it started from, in the order of B.
C1_DeltaOfStart ==
  AtEndOfSport =>
    Requested = Sel(Len(file_links), {i \in 1..Len(file_links) : NewAtStart(i)})

\* C1, amended: at every point of the loop of process_sport, the requests
\* issued so far are exactly the items gone through whose name was not in
\* the history at the start and was not downloaded successfully at an
\* earlier position of the same listing, in the order of the listing.
C1_Delta ==
  pc = "loop" =>
    Requested = Sel(linkIdx - 1,
                    {i \in 1..(linkIdx - 1) : NewAtStart(i) /\ ~DoneEarlier(i)})

\* C1's case: the history has "A.TXT", the listing is A.TXT then another
\* name, and the only request is for the second
C1_Witness ==
  /\ AtEndOfSport
  /\ Len(file_links) = 2
  /\ file_links[1].file_name # file_links[2].file_name
  /\ ~NewAtStart(1)
  /\ Requested = <<2>>


\* the <<sport, name>> of the item download_file is working on
CurrentKey == <<sport_code, file_links[linkIdx].file_name>>

\* C2: once a record of (sport, name) has been written to the history file,
\* no later process requests that item or writes its file.
C2_NeverAgain ==
  pc \in {"get", "write"} => CurrentKey \notin KeysOf(persisted)

\* C3 as stated: a completed run that follows a completed run and gets the
\* same listings downloads nothing new.
C3_IdempotentAsStated ==
  (pc = "completed" /\ prev.ended = "completed" /\ seen = prev.seen)
    => total_downloaded = 0

\* C3, amended: a completed run that follows a completed run in which every
\* listed item ended up in the history, and that gets the same listings,
\* issues no download request and counts zero new downloads.
C3_Idempotent ==
  (pc = "completed" /\ prev.ended = "completed" /\ seen = prev.seen
     /\ prev.allRecorded)
    => (total_downloaded = 0 /\ reqs = <<>>)

\* C3's case: the first run downloaded an item, the second run listed it
\* again and ran to completion
C3_Witness ==
  /\ pc = "completed"
  /\ prev.ended = "completed"
  /\ prev.allRecorded
  /\ seen = prev.seen
  /\ \E e \in Entries(atLoad.file) : e[3] = 1 /\ seen[e[1]].page # <<>>
  /\ total_downloaded = 0

\* C4 as stated: an item whose download failed is in neither history after
\* the run, and the next run requests it when it reaches it.
C4_AsStated ==
  /\ pc = "completed" =>
       \A k \in ReqKeys("failed") :
          k \notin Keys(download_history) /\ k \notin KeysOf(Entries(histFile))
  /\ (pc = "sleep" /\ CurrentKey \in prev.failed) => linkIdx \in RequestedSet

\* C4, amended: an item whose download failed, and for which no other attempt
\* of the run succeeded, is in neither history after the run, and the next
\* run requests it when it reaches it in a listing (unless an earlier
\* occurrence in that listing has just been downloaded).
C4_NoLossOnSkip ==
  /\ pc = "completed" =>
       \A k \in ReqKeys("failed") \ ReqKeys("ok") :
          k \notin Keys(download_history) /\ k \notin KeysOf(Entries(histFile))
  /\ (pc = "sleep" /\ CurrentKey \in prev.unrecovered /\ ~DoneEarlier(linkIdx))
       => linkIdx \in RequestedSet

\* C4's case: the previous run failed to download the item and this run has
\* just requested it again
C4_Witness ==
  /\ pc = "sleep"
  /\ CurrentKey \in prev.unrecovered
  /\ linkIdx \in RequestedSet

\* C5: a download that fails, by its status or by a network error, does not
\* end the run.
C5_FailureIsolation ==
  pc = "raised" => raisedAt # "download"

\* the history file holds a complete JSON text
CompleteFile(file) == file.kind \in {"object", "array"}

\* C6: after a kill, the history file is the one the process found or a
\* completely written new one.
C6_AtomicPersist ==
  pc = "killed" => (histFile = atLoad.file \/ CompleteFile(histFile))

\* C7: a process that finds no history file, or one that is not a history,
\* starts from the empty history and does not fail on it.
C7_CorruptRecovery ==
  atLoad.file.kind \in {"absent", "garbage", "truncated", "array"}
    => (atLoad.history = EmptyDict /\ raisedAt # "record")

\* C8: a process whose login has not succeeded has issued no listing and no
\* download request, has written no item file, and has left the history in
\* memory and the history file as it loaded them.
C8_AuthFailureFatal ==
  (pc \in Running \cup {"auth_failed"} /\ ~logged_in)
    => /\ seen = NoSeen
       /\ reqs = <<>>
       /\ files = atLoad.files
       /\ download_history = atLoad.history
       /\ histFile = atLoad.file

\* C8's case: login failed with records in the history file
C8_Witness ==
  /\ pc = "auth_failed"
  /\ Entries(histFile) # {}

\* C9: a record once persisted stays in the history file as it is, and a
\* process keeps every record it loaded.
C9_OnlyGrows ==
  /\ pc # "dump" => persisted \subseteq Entries(histFile)
  /\ pc \in Running =>
       Entries(Dump(atLoad.history)) \subseteq Entries(Dump(download_history))

\* the positions gone through that hold the name
Occurrences(n) == {i \in 1..(linkIdx - 1) : file_links[i].file_name = n}

\* the name has no record under the sport being processed at its start
NewName(n) == <<sport_code, n>> \notin Keys(atSport)

\* C10 as stated: a new name listed more than once gets exactly one download
\* attempt and exactly one record.
C10_AsStated ==
  AtEndOfSport =>
    \A n \in Names :
      (NewName(n) /\ Cardinality(Occurrences(n)) >= 2)
        => /\ Cardinality(Occurrences(n) \cap RequestedSet) = 1
           /\ Cardinality(Occurrences(n) \cap Succeeded) = 1

\* C10, amended: for a new name, a download is attempted at each occurrence
\* up to and including the first that succeeds; at most one record is
\* created, by that success and with its URL, and every later occurrence is
\* a no-op.
C10_Duplicates ==
  pc = "loop" =>
    \A n \in Names :
      NewName(n) =>
        LET occ == Occurrences(n)
            ok == occ \cap Succeeded
        IN  /\ Cardinality(ok) <= 1
            /\ occ \cap RequestedSet = {i \in occ : \A j \in ok : i <= j}
            /\ (<<sport_code, n>> \in Keys(download_history)) <=> (ok # {})
            /\ \A j \in ok :
                 download_history.d[sport_code][n].url = file_links[j].file_url

\* C10's case: the same new name twice, the first download succeeded and the
\* second occurrence was skipped
C10_Witness ==
  /\ AtEndOfSport
  /\ Len(file_links) = 2
  /\ file_links[1].file_name = file_links[2].file_name
  /\ NewAtStart(1)
  /\ Requested = <<1>>
  /\ Succeeded = {1}


\* C11: a download that fails, by its status or by a network error, makes
\* download_file return False (process_sport goes on to its sleep) and
\* changes neither the files nor the history in memory.
C11_FailedDownloadChangesNothing ==
  [][(pc = "get" /\ pc' \notin {"write", "killed"})
       => (pc' = "sleep" /\ files' = files /\ download_history' = download_history)]_vars


\* the sport codes that are no key of SPORT_PAGES
UnknownCodes == {SPORT_CODES[i] : i \in 1..Len(SPORT_CODES)} \ Sports

InSport == pc \in {"loop", "get", "write", "sleep"}

\* C12: get_file_links returns [] for an unknown code; a sport whose listing
\* request fails gets no links, no request, a count of zero and an unchanged
\* history; and run goes through the sports in order, whatever their
\* listings returned, up to the save.
C12_ListingFailureScoped ==
  /\ (pc = "loop" /\ linkIdx = 1) =>
       \A code \in UnknownCodes :
          get_file_links(code, [status |-> 200, page |-> seen[sport_code].page]) = <<>>
  /\ (InSport /\ seen[sport_code].status = "failed") =>
       /\ file_links = <<>>
       /\ Mine = <<>>
       /\ downloaded_count = 0
       /\ download_history = atSport
  /\ (InSport \/ pc = "sport") =>
       \A j \in 1..Len(SPORT_PAGES) :
          /\ j < sportIdx => seen[SPORT_PAGES[j]].status # "none"
          /\ j > sportIdx => seen[SPORT_PAGES[j]].status = "none"
  /\ pc \in {"save", "dump", "completed"} =>
       \A c \in Sports : seen[c].status # "none"

\* C12's case: the first listing failed, the second sport was processed and
\* the run completed with its downloads
C12_Witness ==
  /\ pc = "completed"
  /\ seen[SPORT_PAGES[1]].status = "failed"
  /\ seen[SPORT_PAGES[2]].status = "ok"
  /\ total_downloaded > 0


\* the <<sport, name>> pairs that history h has and history h0 has not
Added(h, h0) == Keys(h) \ Keys(h0)

\* C13: the count of process_sport is the number of records its call has
\* added to the history, one per successful download; the total of run is
\* the number of records added by the sports processed so far, and at the
\* end of the run the number of records the run added.
C13_CountCorrect ==
  /\ InSport =>
       /\ downloaded_count = Cardinality(Added(download_history, atSport))
       /\ downloaded_count = Cardinality(Succeeded)
       /\ total_downloaded = Cardinality(Added(atSport, atLoad.history))
  /\ pc \in {"save", "dump", "completed"} =>
       /\ total_downloaded = Cardinality(Added(download_history, atLoad.history))
       /\ total_downloaded = Cardinality({i \in 1..Len(reqs) : reqs[i].status = "ok"})

\* C13's case: a completed run that downloaded one item in each of two
\* sports
C13_Witness ==
  /\ pc = "completed"
  /\ total_downloaded = 2
  /\ \E i, j \in 1..Len(reqs) :
        reqs[i].sport # reqs[j].sport /\ reqs[i].status = "ok" /\ reqs[j].status = "ok"


\* C14: a start without credentials fails in __init__ before a directory is
\* made, before the history is loaded and before any request: the disk is
\* as it was and the process has loaded and requested nothing.
C14_MissingCredentialsFatal ==
  [][pc' = "no_creds"
       => /\ dirs' = dirs
          /\ histFile' = histFile
          /\ files' = files
          /\ atLoad' = NoLoad
          /\ download_history' = EmptyDict
          /\ ~logged_in'
          /\ seen' = NoSeen
          /\ reqs' = <<>>]_vars

\* C14's case: a first start without credentials on a disk that has no
\* download directory yet
C14_Witness ==
  /\ pc = "no_creds"
  /\ runs = 1
  /\ dirs = {}


\* the records of the successful downloads of this process
NewRecords ==
  {<<reqs[i].sport, reqs[i].name, now, reqs[i].url>> :
     i \in {j \in 1..Len(reqs) : reqs[j].status = "ok"}}

\* the records of a history, as the history file would hold them
RecordsOf(h) == Entries(Dump(h))

\* C15: a process works on the history it loaded at its start plus one record
\* for each of its successful downloads; it leaves the history file alone
\* until every sport has been processed, and a completed run has written
\* exactly that history to the file.
C15_Lifecycle ==
  /\ pc \in Running =>
       /\ RecordsOf(download_history) = RecordsOf(atLoad.history) \cup NewRecords
       /\ KeysOf(NewRecords) \cap Keys(atLoad.history) = {}
       /\ Cardinality(KeysOf(NewRecords)) = Cardinality(ReqKeys("ok"))
  /\ pc \in Running \ {"dump"} => histFile = atLoad.file
  /\ pc \in {"save", "dump", "completed"} =>
       /\ sportIdx = Len(SPORT_PAGES)
       /\ linkIdx > Len(file_links)
  /\ pc = "completed" =>
       /\ histFile = Dump(download_history)
       /\ Entries(histFile) = RecordsOf(atLoad.history) \cup NewRecords
       /\ Cardinality(Entries(histFile))
            = Cardinality(RecordsOf(atLoad.history)) + total_downloaded

\* C15's case: a run that loaded a history with records, downloaded
\* something and completed
C15_Witness ==
  /\ pc = "completed"
  /\ RecordsOf(atLoad.history) # {}
  /\ total_downloaded > 0


\* where a process is before _save_download_history has opened the file
BeforeFlush == Running \ {"dump"}

\* the items the previous process downloaded and whose records it lost: it
\* was killed or raised, their files are on disk and the history file this
\* process loaded has no record of them
LostDownloads ==
  IF prev.ended \notin {"killed", "raised"} THEN {}
  ELSE {q \in DOMAIN atLoad.files :
          /\ atLoad.files[q].complete
          /\ atLoad.files[q].at = now - 1
          /\ q \notin KeysOf(Entries(atLoad.file))}

\* C16: a process that ends before its save, after successful downloads,
\* leaves the history file as it found it, without their records, and their
\* files on disk; the next process requests such an item again when it
\* reaches it, and a success overwrites the file.
C16_CrashBeforeFlush ==
  /\ [][(pc \in BeforeFlush /\ ReqKeys("ok") # {} /\ pc' \in {"killed", "raised"})
          => /\ histFile' = atLoad.file
             /\ \A k \in ReqKeys("ok") :
                  /\ k \notin KeysOf(Entries(histFile'))
                  /\ k \in DOMAIN files'
                  /\ files'[k].complete]_vars
  /\ []((pc = "sleep" /\ CurrentKey \in LostDownloads /\ ~DoneEarlier(linkIdx))
          => /\ linkIdx \in RequestedSet
             /\ linkIdx \in Succeeded =>
                  files[CurrentKey] = [complete |-> TRUE,
                                       url |-> file_links[linkIdx].file_url,
                                       at |-> now])

\* C16's case: the previous process was killed after it had downloaded the
\* item; this one has downloaded it again, over the file that was there
C16_Witness ==
  /\ pc = "sleep"
  /\ prev.ended = "killed"
  /\ CurrentKey \in LostDownloads
  /\ linkIdx \in Succeeded
  /\ files[CurrentKey].at = now


\* the loop of process_sport as a function: the history after the links from
\* position i on have been gone through, out[j] telling whether the download
\* of position j gets status 200
RECURSIVE ProcessLinks(_, _, _, _, _)
ProcessLinks(h, code, links, out, i) ==
  IF i > Len(links) THEN h
  ELSE LET after ==
             IF InHistory(h, code, links[i].file_name) THEN h
             ELSE IF out[i] /\ h.type = "dict"
                  THEN Record(h, code, links[i].file_name, links[i].file_url, now)
                  ELSE h
       IN  ProcessLinks(after, code, links, out, i + 1)

\* the permutations of 1..n
Perms(n) == {f \in [1..n -> 1..n] : \A i, j \in 1..n : i # j => f[i] # f[j]}

\* a sequence in the order f
Permuted(seq, f) == [i \in 1..Len(seq) |-> seq[f[i]]]

\* the outcomes per position that agree with what this call of process_sport
\* has seen (a position it skipped could have had either)
Outcomes ==
  {out \in [1..Len(file_links) -> BOOLEAN] :
     \A i \in 1..Len(Mine) :
        /\ Mine[i].status = "ok" => out[Mine[i].idx]
        /\ Mine[i].status = "failed" => ~out[Mine[i].idx]}

\* <<sport, name, url>> of the records of a history
SourcesOf(h) == {<<e[1], e[2], e[4]>> : e \in RecordsOf(h)}

\* the name is listed at two positions with different URLs
ListedTwice(n) ==
  \E i, j \in 1..Len(file_links) :
     /\ file_links[i].file_name = n
     /\ file_links[j].file_name = n
     /\ file_links[i].file_url # file_links[j].file_url

\* C17 as stated: going through the listing in any order, with the same
\* outcome per item, gives a history with the same names and the same source
\* locations.
C17_AsStated ==
  (AtEndOfSport /\ atSport.type = "dict") =>
    \A out \in Outcomes : \A f \in Perms(Len(file_links)) :
       SourcesOf(ProcessLinks(atSport, sport_code, Permuted(file_links, f),
                              Permuted(out, f), 1))
         = SourcesOf(download_history)

\* C17, amended: going through the listing in any order, with the same
\* outcome per item, gives a history with the same names; the source
\* location of a record is the same too, except for a name that the listing
\* has with different source locations, which gets the location of one of
\* its entries whose download succeeds.
C17_OrderIndependent ==
  (AtEndOfSport /\ atSport.type = "dict") =>
    \A out \in Outcomes :
       /\ SourcesOf(ProcessLinks(atSport, sport_code, file_links, out, 1))
            = SourcesOf(download_history)
       /\ \A f \in Perms(Len(file_links)) :
            LET h == ProcessLinks(atSport, sport_code, Permuted(file_links, f),
                                  Permuted(out, f), 1)
            IN  /\ Keys(h) = Keys(download_history)
                /\ \A r \in SourcesOf(h) \ SourcesOf(download_history) :
                     /\ r[1] = sport_code
                     /\ ListedTwice(r[2])
                     /\ \E i \in 1..Len(file_links) :
                          out[i] /\ file_links[i].file_url = r[3]
                             /\ file_links[i].file_name = r[2]

\* C17's case: a new name listed twice with different URLs, the first
\* downloaded and the second skipped
C17_Witness ==
  /\ AtEndOfSport
  /\ atSport.type = "dict"
  /\ Len(file_links) = 2
  /\ ListedTwice(file_links[1].file_name)
  /\ Succeeded = {1}
  /\ SourcesOf(download_history) # SourcesOf(atSport)


\* C18: within a sport, a download request that follows an earlier one is
\* issued after at least one time.sleep since that earlier request, whether
\* it succeeded or failed; while a request is under way no sleep has happened
\* since it was issued.
C18_PolitenessDelay ==
  /\ [][(pc = "loop" /\ pc' = "get" /\ Len(Mine) >= 1) => slept = 1]_vars
  /\ [](pc \in {"get", "write"} => slept = 0)

\* C18's case: the second request of a sport is under way, and the first
\* one had failed
C18_Witness ==
  /\ pc = "get"
  /\ Len(Mine) = 2
  /\ Mine[1].status = "failed"


\* the records this process has added to the history it loaded
AddedRecords == RecordsOf(download_history) \ RecordsOf(atLoad.history)

\* C19: every record this process has added to its history has, at
\* <base>/<sport>/<name>, the complete file of a download of this process
\* from the record's URL; while the file of an item is being written the
\* history has no record of the item.
C19_FileBeforeRecord ==
  /\ pc \in Running \cup {"completed"} =>
       \A e \in AddedRecords :
          /\ <<e[1], e[2]>> \in DOMAIN files
          /\ files[<<e[1], e[2]>>] = [complete |-> TRUE, url |-> e[4], at |-> now]
          /\ e[3] = now
          /\ <<e[1], e[2]>> \in ReqKeys("ok")
  /\ pc = "write" =>
       /\ ~files[CurrentKey].complete
       /\ CurrentKey \notin Keys(download_history)

\* C19's case: a record has just been added, after its file was written
C19_Witness ==
  /\ pc = "sleep"
  /\ linkIdx \in Succeeded
  /\ CurrentKey \in KeysOf(AddedRecords)
  /\ files[CurrentKey].complete


\* the records of a history under one sport
OfCategory(h, c) == {e \in RecordsOf(h) : e[1] = c}

\* C20: download_file skips an item only when the history has its name under
\* the sport being processed; a successful download adds one record, under
\* that sport, and leaves the records of every other sport as they were.
C20_CategoryScoped ==
  [][/\ (pc = "loop" /\ pc' = "sleep") => CurrentKey \in Keys(download_history)
     /\ (pc = "write" /\ pc' = "sleep") =>
          /\ RecordsOf(download_history') \ RecordsOf(download_history)
               = {<<sport_code, file_links[linkIdx].file_name, now,
                    file_links[linkIdx].file_url>>}
          /\ \A c \in Sports \ {sport_code} :
               OfCategory(download_history', c) = OfCategory(download_history, c)]_vars

\* C20's case: an item whose name the history had under another sport has
\* been downloaded and recorded under the sport being processed
C20_Witness ==
  /\ pc = "sleep"
  /\ linkIdx \in Succeeded
  /\ \E c \in Sports \ {sport_code} :
        /\ <<c, file_links[linkIdx].file_name>> \in Keys(atSport)
        /\ OfCategory(download_history, c) = OfCategory(atSport, c)
  /\ CurrentKey \in Keys(download_history) \ Keys(atSport)

====
